---- MODULE Spec2Model ----
(***************************************************************************)
(* The three heap allocators of src/allocator (bump, linked_list,          *)
(* fixed_size_block) behind the Locked wrapper.                            *)
(*                                                                         *)
(* Addresses and sizes are usize values.  The word is scaled to UsizeBits  *)
(* bits so that the checked additions of the code can overflow within the  *)
(* range of the model checker's integers.                                  *)
(***************************************************************************)
EXTENDS Integers, Sequences, FiniteSets, TLC

\* ------------------------------------------------------------------ bounds

UsizeBits == 16
\* heap_size passed to init for the bump and the linked-list allocator, in
\* 8-byte words
HeapWords == 8
\* heap_size passed to init for the fixed-size-block allocator, in 8-byte words
FsbHeapWords == 16
\* the callers hold at most this many blocks at a time
MaxLive == 3
\* the callers that use the allocator at the same time
NumCallers == 2

\* the layouts list_index is called with: sizes up to MaxLayoutSize, alignments
\* up to 2^MaxAlignLog
MaxLayoutSize == 2050
MaxAlignLog == 12
\* the free lists find_region is called with have at most this many nodes
MaxListLen == 3

UsizeMax == 2^UsizeBits - 1
IsizeMax == 2^(UsizeBits - 1) - 1

NULL == 0
NoIndex == -1

Strategies == {"bump", "linked_list", "fixed_size_block"}

\* ------------------------------------------------------- core::alloc::Layout

Layout(size, align) == [size |-> size, align |-> align]

Max(a, b) == IF a >= b THEN a ELSE b

\* usize::checked_add: NoIndex (-1) stands for None
checked_add(a, b) == IF a + b > UsizeMax THEN -1 ELSE a + b

\* super::align_up: the smallest multiple of align that is >= addr
align_up(addr, align) ==
    LET remainder == addr % align
    IN  IF remainder = 0 THEN addr ELSE (addr - remainder) + align

\* Layout::align_to(a).pad_to_align()
pad_to_align(layout, a) ==
    LET al == Max(layout.align, a)
    IN  Layout(align_up(layout.size, al), al)

\* ------------------------------------------------------ program constants

\* linked_list: mem::size_of::<ListNode>() and mem::align_of::<ListNode>(), a
\* usize and a reference
ListNodeSize == 16
ListNodeAlign == 8

\* the indexes of BLOCK_SIZES and of list_heads
BlockIndexes == 0..8

\* BLOCK_SIZES[i]
BLOCK_SIZES(i) == 2^(i + 3)

\* ------------------------------------------------------------------ inputs

\* init(heap_start, heap_size): a heap low in the address space and one whose
\* end is close to the top of it
HeapStarts == {8192, 2^UsizeBits - 8192}

HeapSizeOf(s) == IF s = "fixed_size_block" THEN FsbHeapWords * 8 ELSE HeapWords * 8

\* the largest size a Layout of alignment 8 can have
BigSize == IsizeMax - 7

\* the layouts the callers of the bump and linked-list allocator ask for
SmallLayouts ==
    { Layout(8, 8), Layout(24, 8), Layout(16, 16), Layout(20, 4), Layout(BigSize, 8) }

\* the layouts the callers of the fixed-size-block allocator ask for
FsbLayouts ==
    { Layout(8, 8), Layout(48, 8), Layout(64, 16), Layout(16, 4096), Layout(4096, 8) }

LayoutsOf(s) == IF s = "fixed_size_block" THEN FsbLayouts ELSE SmallLayouts

\* the layouts concurrent callers ask for
ConcurrentLayouts(s) ==
    IF s = "fixed_size_block"
    THEN { Layout(64, 16), Layout(16, 4096) }
    ELSE { Layout(24, 8), Layout(BigSize, 8) }

Callers == 1..NumCallers

\* ------------------------------------------------------------------- state

VARIABLES
    strategy,     \* which allocator is installed as the global allocator
    heap_start,   \* init's heap_start (BumpAllocator.heap_start)
    heap_end,     \* heap_start + heap_size (BumpAllocator.heap_end)
    next,         \* BumpAllocator.next
    allocations,  \* BumpAllocator.allocations
    free_list,    \* LinkedListAllocator: the chain head.next, as <<[addr, size]>>
    list_heads,   \* FixedSizeBlockAllocator.list_heads: index -> chain of block addresses
    fallback,     \* FixedSizeBlockAllocator.fallback_allocator: its used blocks
    panicked,     \* an assert!, expect or unwrap of the code has failed
    live,         \* the callers' blocks: allocated and not yet released
    run,          \* the blocks allocated since the last release (or init)
    last,         \* the last completed call and what it returned
    lock,         \* Locked<A>: the caller that holds the mutex, 0 when it is free
    pc,           \* where each concurrent caller is in its call
    frame,        \* each concurrent caller's call: arguments, locals, result
    args,         \* a function of the allocators called on its own: its arguments
    ret           \* ... and what it returned

vars == << strategy, heap_start, heap_end, next, allocations, free_list,
           list_heads, fallback, panicked, live, run, last, lock, pc, frame,
           args, ret >>

\* the callers' side of the Locked wrapper
cvars == << lock, pc, frame >>

\* A block a caller holds: the address allocate returned and the layout asked
\* for.  n counts the blocks of S with the same address and layout, so that a
\* block handed out twice is held twice.
Block(ptr, layout, S) ==
    [ptr |-> ptr, size |-> layout.size, align |-> layout.align,
     n |-> Cardinality({ b \in S : b.ptr = ptr /\ b.size = layout.size
                                              /\ b.align = layout.align })]

LayoutOfBlock(b) == Layout(b.size, b.align)

\* what a successful allocate adds to the blocks S
Given(S, ptr, layout) == IF ptr = NULL THEN S ELSE S \cup {Block(ptr, layout, S)}

RECURSIVE SumSizes(_)
SumSizes(list) == IF list = << >> THEN 0 ELSE Head(list).size + SumSizes(Tail(list))

RECURSIVE SumUsed(_)
SumUsed(S) == IF S = {} THEN 0
              ELSE LET u == CHOOSE x \in S : TRUE IN u.size + SumUsed(S \ {u})

RECURSIVE SumBuckets(_)
SumBuckets(i) == IF i \notin BlockIndexes THEN 0
                 ELSE Len(list_heads[i]) * BLOCK_SIZES(i) + SumBuckets(i + 1)

\* the free bytes the installed allocator has to hand out
FreeSpace ==
    CASE strategy = "bump" -> heap_end - next
      [] strategy = "linked_list" -> SumSizes(free_list)
      [] OTHER -> (heap_end - heap_start) - SumUsed(fallback) + SumBuckets(0)

NoRel == [ptr |-> NULL, size |-> 0, align |-> 1]

\* The release a call follows: the block released by the call before it, also
\* when allocate calls that failed lie in between.
RelAfter(l) ==
    IF l.op = "dealloc" THEN [ptr |-> l.ptr, size |-> l.size, align |-> l.align]
    ELSE IF l.op = "alloc" /\ l.ptr = NULL THEN l.rel
    ELSE NoRel

\* The record of a call: op, its layout, ptr (what allocate returned, or the
\* address released), rel (the release it follows), fb (it called the
\* fallback allocator), streak (the releases in a row before it, itself
\* included, counted to 2), gap (a failed allocate lies between rel and it),
\* empty and free (no block was live, and the free bytes, when it started).
LastOf(op, layout, ptr, fb) ==
    LET failed == last.op = "alloc" /\ last.ptr = NULL
    IN  [ op |-> op, size |-> layout.size, align |-> layout.align, ptr |-> ptr,
          rel |-> RelAfter(last), fb |-> fb,
          streak |-> IF op = "dealloc"
                     THEN (IF last.op = "dealloc" THEN 2 ELSE 1)
                     ELSE IF last.op = "dealloc" \/ failed THEN last.streak ELSE 0,
          gap |-> op = "alloc" /\ failed /\ RelAfter(last) # NoRel,
          empty |-> (live = {}),
          free |-> FreeSpace ]

\* ---------------------------------------------------------- bump allocator

\* BumpAllocator::new followed by init(heap_start, heap_size)
BumpInit(hs, size) ==
    /\ heap_start = hs
    /\ heap_end = hs + size
    /\ next = hs
    /\ allocations = 0

\* alloc, the first two statements: alloc_start and alloc_end (-1 for the
\* None on which alloc returns null) from the bump pointer nx
bump_alloc_range(nx, layout) ==
    LET alloc_start == align_up(nx, layout.align)
    IN  [alloc_start |-> alloc_start,
         alloc_end   |-> checked_add(alloc_start, layout.size)]

\* bump_alloc_commit with the bump pointer left where it was
bump_alloc_commit_NoAdvance(range, nx, allocs) ==
    IF range.alloc_end > heap_end
    THEN [ptr |-> NULL, next |-> nx, allocations |-> allocs]
    ELSE [ptr |-> range.alloc_start, next |-> nx, allocations |-> allocs + 1]

\* bump_alloc_commit counting the allocations that fail as well
bump_alloc_commit_CountsFailure(range, nx, allocs) ==
    IF range.alloc_end > heap_end
    THEN [ptr |-> NULL, next |-> nx, allocations |-> allocs + 1]
    ELSE [ptr |-> range.alloc_start, next |-> range.alloc_end,
          allocations |-> allocs + 1]

\* alloc, the if statement: [ptr, next, allocations] from the range computed
\* and the fields nx and allocs
bump_alloc_commit(range, nx, allocs) ==
    IF range.alloc_end > heap_end
    THEN [ptr |-> NULL, next |-> nx, allocations |-> allocs]
    ELSE [ptr |-> range.alloc_start, next |-> range.alloc_end,
          allocations |-> allocs + 1]

\* alloc of Locked<BumpAllocator>: [ptr, next, allocations]
BumpAllocBody(layout) ==
    LET range == bump_alloc_range(next, layout)
    IN  IF range.alloc_end = -1
        THEN [ptr |-> NULL, next |-> next, allocations |-> allocations]
        ELSE bump_alloc_commit(range, next, allocations)

BumpAlloc(layout) ==
    /\ strategy = "bump"
    /\ ~panicked
    /\ Cardinality(live) < MaxLive
    /\ LET r == BumpAllocBody(layout)
       IN  /\ next' = r.next
           /\ allocations' = r.allocations
           /\ live' = Given(live, r.ptr, layout)
           /\ run' = Given(run, r.ptr, layout)
           /\ last' = LastOf("alloc", layout, r.ptr, FALSE)
    /\ UNCHANGED << args, ret, strategy, heap_start, heap_end, free_list, list_heads,
                    fallback, panicked, cvars >>

\* dealloc, bump.allocations -= 1: [allocations, panicked].  The subtraction
\* at 0 panics in a build with overflow checks (wrapped = FALSE) and wraps in
\* one without (wrapped = TRUE).
bump_dealloc_count(allocs, wrapped) ==
    IF allocs = 0
    THEN [allocations |-> IF wrapped THEN UsizeMax ELSE allocs, panicked |-> ~wrapped]
    ELSE [allocations |-> allocs - 1, panicked |-> FALSE]

\* bump_dealloc_reset without the reset
bump_dealloc_reset_Never(allocs, nx) == nx

\* dealloc, the if statement: the bump pointer after it
bump_dealloc_reset(allocs, nx) == IF allocs = 0 THEN heap_start ELSE nx

\* dealloc of Locked<BumpAllocator>: [next, allocations, panicked]
BumpDeallocBody(wrapped) ==
    LET counted == bump_dealloc_count(allocations, wrapped)
    IN  [allocations |-> counted.allocations,
         next |-> IF counted.panicked THEN next
                  ELSE bump_dealloc_reset(counted.allocations, next),
         panicked |-> counted.panicked]

BumpDealloc(b) ==
    /\ strategy = "bump"
    /\ ~panicked
    /\ b \in live
    /\ \E wrapped \in BOOLEAN :
         LET r == BumpDeallocBody(wrapped)
         IN  /\ next' = r.next
             /\ allocations' = r.allocations
             /\ panicked' = r.panicked
    /\ live' = live \ {b}
    /\ run' = {}
    /\ last' = LastOf("dealloc", LayoutOfBlock(b), b.ptr, FALSE)
    /\ UNCHANGED << args, ret, strategy, heap_start, heap_end, free_list, list_heads, fallback,
                    cvars >>

\* --------------------------------------------------- linked-list allocator

Region(addr, size) == [addr |-> addr, size |-> size]

\* ListNode::end_addr
end_addr(region) == region.addr + region.size

\* the two assertions of add_free_region
AddFreeRegionOk(addr, size) ==
    /\ align_up(addr, ListNodeAlign) = addr
    /\ size >= ListNodeSize

\* add_free_region linking the new node behind the last one
add_free_region_Back(list, addr, size) == list \o << Region(addr, size) >>

\* add_free_region: the new node goes to the front of the list
add_free_region(list, addr, size) == << Region(addr, size) >> \o list

\* alloc_from_region with the region's start taken as it is
alloc_from_region_Unaligned(region, size, align) ==
    LET alloc_start == region.addr
        alloc_end   == checked_add(alloc_start, size)
    IN  IF alloc_end = -1 THEN -1
        ELSE IF alloc_end > end_addr(region) THEN -1
        ELSE LET excess_size == end_addr(region) - alloc_end
             IN  IF excess_size > 0 /\ excess_size < ListNodeSize THEN -1
                 ELSE alloc_start

\* alloc_from_region without the check against the region's end
alloc_from_region_NoEndCheck(region, size, align) ==
    LET alloc_start == align_up(region.addr, align)
        alloc_end   == checked_add(alloc_start, size)
    IN  IF alloc_end = -1 THEN -1
        ELSE LET excess_size == end_addr(region) - alloc_end
             IN  IF excess_size > 0 /\ excess_size < ListNodeSize THEN -1
                 ELSE alloc_start

\* alloc_from_region taking a region whatever it leaves behind the block
alloc_from_region_AnyExcess(region, size, align) ==
    LET alloc_start == align_up(region.addr, align)
        alloc_end   == checked_add(alloc_start, size)
    IN  IF alloc_end = -1 THEN -1
        ELSE IF alloc_end > end_addr(region) THEN -1
        ELSE alloc_start

\* alloc_from_region: the allocation's start address, or -1 for Err
alloc_from_region(region, size, align) ==
    LET alloc_start == align_up(region.addr, align)
        alloc_end   == checked_add(alloc_start, size)
    IN  IF alloc_end = -1 THEN -1
        ELSE IF alloc_end > end_addr(region) THEN -1
        ELSE LET excess_size == end_addr(region) - alloc_end
             IN  IF excess_size > 0 /\ excess_size < ListNodeSize THEN -1
                 ELSE alloc_start

RemoveAt(list, i) == SubSeq(list, 1, i - 1) \o SubSeq(list, i + 1, Len(list))

\* find_region_from leaving the node it returns in the list
find_region_from_NoUnlink(list, i, size, align) ==
    LET fits == { j \in i..Len(list) : alloc_from_region(list[j], size, align) # -1 }
    IN  IF fits = {}
        THEN [found |-> FALSE, region |-> Region(0, 0), alloc_start |-> 0, list |-> list]
        ELSE LET k == CHOOSE j \in fits : \A l \in fits : j <= l
             IN  [found |-> TRUE, region |-> list[k],
                  alloc_start |-> alloc_from_region(list[k], size, align),
                  list |-> list]

\* find_region, the loop from node i of the list on: the first node that
\* alloc_from_region accepts, unlinked: [found, region, alloc_start, list]
RECURSIVE find_region_from(_, _, _, _)
find_region_from(list, i, size, align) ==
    IF i > Len(list)
    THEN [found |-> FALSE, region |-> Region(0, 0), alloc_start |-> 0, list |-> list]
    ELSE IF alloc_from_region(list[i], size, align) # -1
    THEN [found |-> TRUE, region |-> list[i],
          alloc_start |-> alloc_from_region(list[i], size, align),
          list |-> RemoveAt(list, i)]
    ELSE find_region_from(list, i + 1, size, align)

\* find_region: the walk starts at the head
find_region(list, size, align) == find_region_from(list, 1, size, align)

\* size_align leaving the layout as the caller gave it
size_align_NoPad(layout) == layout

\* size_align: the layout padded so that the block can hold a ListNode
size_align(layout) ==
    LET padded == pad_to_align(layout, ListNodeAlign)
    IN  Layout(Max(padded.size, ListNodeSize), padded.align)

\* LinkedListAllocator::new followed by init(heap_start, heap_size)
LinkedListInit(hs, size) == free_list = add_free_region(<< >>, hs, size)

\* linked_list_split never putting the leftover back
linked_list_split_DropsExcess(list, region, alloc_start, size) ==
    [ptr |-> alloc_start, list |-> list, panicked |-> FALSE]

\* linked_list_split putting the whole region back while handing out the block
linked_list_split_KeepsRegion(list, region, alloc_start, size) ==
    [ptr |-> alloc_start,
     list |-> add_free_region(list, region.addr, region.size),
     panicked |-> FALSE]

\* alloc, the body of the if let: the region found is split and what lies
\* behind the block goes back to the list: [ptr, list, panicked]
linked_list_split(list, region, alloc_start, size) ==
    LET alloc_end   == checked_add(alloc_start, size)
        excess_size == end_addr(region) - alloc_end
    IN  IF alloc_end = -1
        THEN [ptr |-> NULL, list |-> list, panicked |-> TRUE]
        ELSE IF excess_size > 0
        THEN [ptr |-> alloc_start,
              list |-> add_free_region(list, alloc_end, excess_size),
              panicked |-> ~AddFreeRegionOk(alloc_end, excess_size)]
        ELSE [ptr |-> alloc_start, list |-> list, panicked |-> FALSE]

\* LinkedListAllocBody losing the head of the list when no region fits
LinkedListAllocBody_DropsHead(layout) ==
    LET sa == size_align(layout)
        f  == find_region(free_list, sa.size, sa.align)
    IN  IF ~f.found
        THEN [ptr |-> NULL,
              list |-> IF free_list = << >> THEN free_list ELSE Tail(free_list),
              panicked |-> FALSE]
        ELSE linked_list_split(f.list, f.region, f.alloc_start, sa.size)

\* alloc of Locked<LinkedListAllocator>: [ptr, list, panicked]
LinkedListAllocBody(layout) ==
    LET sa == size_align(layout)
        f  == find_region(free_list, sa.size, sa.align)
    IN  IF ~f.found
        THEN [ptr |-> NULL, list |-> free_list, panicked |-> FALSE]
        ELSE linked_list_split(f.list, f.region, f.alloc_start, sa.size)

LinkedListAlloc(layout) ==
    /\ strategy = "linked_list"
    /\ ~panicked
    /\ Cardinality(live) < MaxLive
    /\ LET r == LinkedListAllocBody(layout)
           ok == r.ptr # NULL /\ ~r.panicked
       IN  /\ free_list' = r.list
           /\ panicked' = r.panicked
           /\ live' = Given(live, IF ok THEN r.ptr ELSE NULL, layout)
           /\ run' = Given(run, IF ok THEN r.ptr ELSE NULL, layout)
           /\ last' = LastOf("alloc", layout, IF ok THEN r.ptr ELSE NULL, FALSE)
    /\ UNCHANGED << args, ret, strategy, heap_start, heap_end, next, allocations,
                    list_heads, fallback, cvars >>

\* LinkedListDeallocBody merging the block with the head of the list when the
\* two are adjacent
LinkedListDeallocBody_Merges(ptr, layout) ==
    LET sa == size_align(layout)
        adjacent == /\ free_list # << >>
                    /\ \/ Head(free_list).addr = ptr + sa.size
                       \/ end_addr(Head(free_list)) = ptr
        lo == IF Head(free_list).addr < ptr THEN Head(free_list).addr ELSE ptr
    IN  [list |-> IF adjacent
                  THEN << Region(lo, sa.size + Head(free_list).size) >> \o Tail(free_list)
                  ELSE add_free_region(free_list, ptr, sa.size),
         panicked |-> ~AddFreeRegionOk(ptr, sa.size)]

\* dealloc of Locked<LinkedListAllocator>: [list, panicked]
LinkedListDeallocBody(ptr, layout) ==
    LET sa == size_align(layout)
    IN  [list |-> add_free_region(free_list, ptr, sa.size),
         panicked |-> ~AddFreeRegionOk(ptr, sa.size)]

LinkedListDealloc(b) ==
    /\ strategy = "linked_list"
    /\ ~panicked
    /\ b \in live
    /\ LET r == LinkedListDeallocBody(b.ptr, LayoutOfBlock(b))
       IN  /\ free_list' = r.list
           /\ panicked' = r.panicked
    /\ live' = live \ {b}
    /\ run' = {}
    /\ last' = LastOf("dealloc", LayoutOfBlock(b), b.ptr, FALSE)
    /\ UNCHANGED << args, ret, strategy, heap_start, heap_end, next, allocations,
                    list_heads, fallback, cvars >>

\* ---------------------------------- fallback: linked_list_allocator::Heap

\* mem::size_of::<Hole>(): the least size the fallback hands out
HoleSize == 16

\* the bytes the fallback reserves for a layout
HeapBlockSize(layout) == align_up(Max(layout.size, HoleSize), ListNodeAlign)

Overlap(a1, s1, a2, s2) == a1 < a2 + s2 /\ a2 < a1 + s1

\* Heap::allocate_first_fit: the lowest address of the heap that is aligned
\* for the layout and starts a free range of the layout's size; NULL for Err
allocate_first_fit(used, layout) ==
    LET size  == HeapBlockSize(layout)
        al    == Max(layout.align, ListNodeAlign)
        cands == { align_up(p, al) : p \in {heap_start} \cup { u.addr + u.size : u \in used } }
        fits  == { a \in cands : /\ a + size <= heap_end
                                  /\ \A u \in used : ~Overlap(a, size, u.addr, u.size) }
    IN  IF fits = {} THEN NULL ELSE CHOOSE a \in fits : \A b \in fits : a <= b

\* Heap::deallocate
deallocate(used, ptr, layout) == used \ { Region(ptr, HeapBlockSize(layout)) }

\* -------------------------------------------------- fixed-size-block allocator

\* mem::size_of and mem::align_of of fixed_size_block's ListNode: one reference
FsbNodeSize == 8
FsbNodeAlign == 8

\* BLOCK_SIZES.iter().position(|&s| s >= required_block_size) from index i on;
\* NoIndex for None
RECURSIVE position(_, _)
position(i, required_block_size) ==
    IF i \notin BlockIndexes THEN NoIndex
    ELSE IF BLOCK_SIZES(i) >= required_block_size THEN i
    ELSE position(i + 1, required_block_size)

\* list_index looking at the size of the layout only
list_index_SizeOnly(layout) == position(0, layout.size)

\* list_index: the position of the first block size that is large enough
list_index(layout) == position(0, Max(layout.size, layout.align))

InTable(layout) == list_index(layout) # NoIndex

\* fallback_alloc: [ptr, fallback]
fallback_alloc(used, layout) ==
    LET ptr == allocate_first_fit(used, layout)
    IN  [ptr |-> ptr,
         fallback |-> IF ptr = NULL THEN used
                      ELSE used \cup { Region(ptr, HeapBlockSize(layout)) }]

\* FixedSizeBlockAllocator::new followed by init(heap_start, heap_size)
FixedSizeBlockInit ==
    /\ list_heads = [i \in BlockIndexes |-> << >>]
    /\ fallback = {}

\* list_heads[index].take(): the chain taken and the heads it leaves
take(heads, index) ==
    [chain |-> heads[index], heads |-> [heads EXCEPT ![index] = << >>]]

\* fixed_size_block_pop asking the fallback for a block of the class's size
\* with the alignment of a node only
fixed_size_block_pop_NodeAlign(chain, heads, used, index) ==
    IF chain # << >>
    THEN [ptr |-> Head(chain), heads |-> [heads EXCEPT ![index] = Tail(chain)],
          fallback |-> used, fb |-> FALSE]
    ELSE LET r == fallback_alloc(used, Layout(BLOCK_SIZES(index), FsbNodeAlign))
         IN  [ptr |-> r.ptr, heads |-> heads, fallback |-> r.fallback, fb |-> TRUE]

\* alloc, the inner match on the chain taken from list_heads[index]:
\* [ptr, heads, fallback, fb], fb telling whether the fallback was called
fixed_size_block_pop(chain, heads, used, index) ==
    IF chain # << >>
    THEN [ptr |-> Head(chain), heads |-> [heads EXCEPT ![index] = Tail(chain)],
          fallback |-> used, fb |-> FALSE]
    ELSE LET block_size  == BLOCK_SIZES(index)
             block_align == block_size
             r == fallback_alloc(used, Layout(block_size, block_align))
         IN  [ptr |-> r.ptr, heads |-> heads, fallback |-> r.fallback, fb |-> TRUE]

\* alloc, the arm for a layout with no index: [ptr, heads, fallback, fb]
fixed_size_block_large(heads, used, layout) ==
    LET r == fallback_alloc(used, layout)
    IN  [ptr |-> r.ptr, heads |-> heads, fallback |-> r.fallback, fb |-> TRUE]

\* alloc of Locked<FixedSizeBlockAllocator>: [ptr, heads, fallback, fb]
FixedSizeBlockAllocBody(layout) ==
    LET index == list_index(layout)
    IN  IF index # NoIndex
        THEN LET t == take(list_heads, index)
             IN  fixed_size_block_pop(t.chain, t.heads, fallback, index)
        ELSE fixed_size_block_large(list_heads, fallback, layout)

FixedSizeBlockAlloc(layout) ==
    /\ strategy = "fixed_size_block"
    /\ ~panicked
    /\ Cardinality(live) < MaxLive
    /\ LET r == FixedSizeBlockAllocBody(layout)
       IN  /\ list_heads' = r.heads
           /\ fallback' = r.fallback
           /\ live' = Given(live, r.ptr, layout)
           /\ run' = Given(run, r.ptr, layout)
           /\ last' = LastOf("alloc", layout, r.ptr, r.fb)
    /\ UNCHANGED << args, ret, strategy, heap_start, heap_end, next, allocations,
                    free_list, panicked, cvars >>

\* fixed_size_block_push linking the node behind the chain
fixed_size_block_push_Back(chain, heads, used, index, ptr) ==
    [heads |-> [heads EXCEPT ![index] = chain \o << ptr >>],
     fallback |-> used, fb |-> FALSE,
     panicked |-> ~(FsbNodeSize <= BLOCK_SIZES(index)
                    /\ FsbNodeAlign <= BLOCK_SIZES(index))]

\* dealloc, the node written at ptr becomes the head of the chain taken from
\* list_heads[index]: [heads, fallback, fb, panicked]
fixed_size_block_push(chain, heads, used, index, ptr) ==
    [heads |-> [heads EXCEPT ![index] = << ptr >> \o chain],
     fallback |-> used, fb |-> FALSE,
     panicked |-> ~(FsbNodeSize <= BLOCK_SIZES(index)
                    /\ FsbNodeAlign <= BLOCK_SIZES(index))]

\* dealloc, the arm for a layout with no index: [heads, fallback, fb, panicked]
fixed_size_block_return(heads, used, ptr, layout) ==
    [heads |-> heads, fallback |-> deallocate(used, ptr, layout), fb |-> TRUE,
     panicked |-> (ptr = NULL)]

\* FixedSizeBlockDeallocBody giving the blocks of the table back to the
\* fallback as well
FixedSizeBlockDeallocBody_ToFallback(ptr, layout) ==
    LET index == list_index(layout)
    IN  IF index # NoIndex
        THEN fixed_size_block_return(list_heads, fallback, ptr,
                                     Layout(BLOCK_SIZES(index), BLOCK_SIZES(index)))
        ELSE fixed_size_block_return(list_heads, fallback, ptr, layout)

\* dealloc of Locked<FixedSizeBlockAllocator>: [heads, fallback, fb, panicked]
FixedSizeBlockDeallocBody(ptr, layout) ==
    LET index == list_index(layout)
    IN  IF index # NoIndex
        THEN LET t == take(list_heads, index)
             IN  fixed_size_block_push(t.chain, t.heads, fallback, index, ptr)
        ELSE fixed_size_block_return(list_heads, fallback, ptr, layout)

FixedSizeBlockDealloc(b) ==
    /\ strategy = "fixed_size_block"
    /\ ~panicked
    /\ b \in live
    /\ LET r == FixedSizeBlockDeallocBody(b.ptr, LayoutOfBlock(b))
       IN  /\ list_heads' = r.heads
           /\ fallback' = r.fallback
           /\ panicked' = r.panicked
           /\ last' = LastOf("dealloc", LayoutOfBlock(b), b.ptr, r.fb)
    /\ live' = live \ {b}
    /\ run' = {}
    /\ UNCHANGED << args, ret, strategy, heap_start, heap_end, next, allocations, free_list,
                    cvars >>

\* ------------------------------------------------ Locked<A>: concurrent calls

\* A caller is idle, at self.lock() ("lock"), at the first or the second
\* statement of the critical section ("s1", "s2"), at the end of the scope
\* of the guard ("drop"), or about to return ("ret").
InCriticalSection(c) == pc[c] \in {"s1", "s2", "drop"}

NoLocals == [alloc_start |-> 0, alloc_end |-> 0, region |-> Region(0, 0), chain |-> << >>]

\* no call: acq counts the times the call has taken the lock
IdleFrame ==
    [op |-> "none", size |-> 0, align |-> 1, ptr |-> NULL, acq |-> 0, loc |-> NoLocals]

FrameLayout(c) == Layout(frame[c].size, frame[c].align)

At(c, label, op, s) ==
    /\ ~panicked
    /\ strategy = s
    /\ pc[c] = label
    /\ frame[c].op = op

Goto(c, label) == pc' = [pc EXCEPT ![c] = label]

\* spin::Mutex::lock: the caller spins until it finds the mutex free and
\* takes it
MutexLock(c) == lock = 0 /\ lock' = c

\* the drop of the MutexGuard: the mutex is free again
MutexUnlock(c) == lock' = 0

\* a caller calls alloc(layout); the blocks asked for count as held
CallAlloc(c, layout) ==
    /\ ~panicked
    /\ pc[c] = "idle"
    /\ Cardinality(live)
         + Cardinality({ d \in Callers : frame[d].op = "alloc" }) < MaxLive
    /\ frame' = [frame EXCEPT ![c] = [IdleFrame EXCEPT !.op = "alloc",
                                        !.size = layout.size, !.align = layout.align]]
    /\ Goto(c, "lock")
    /\ UNCHANGED << args, ret, strategy, heap_start, heap_end, next, allocations, free_list,
                    list_heads, fallback, panicked, live, run, last, lock >>

\* a caller calls dealloc(ptr, layout) for a block it holds
CallDealloc(c, b) ==
    /\ ~panicked
    /\ pc[c] = "idle"
    /\ b \in live
    /\ live' = live \ {b}
    /\ frame' = [frame EXCEPT ![c] = [IdleFrame EXCEPT !.op = "dealloc",
                                        !.size = b.size, !.align = b.align,
                                        !.ptr = b.ptr]]
    /\ Goto(c, "lock")
    /\ UNCHANGED << args, ret, strategy, heap_start, heap_end, next, allocations, free_list,
                    list_heads, fallback, panicked, run, last, lock >>

\* self.lock() without the mutex: the caller goes on whoever holds it
Lock_NoMutex(c) ==
    /\ ~panicked
    /\ pc[c] = "lock"
    /\ frame' = [frame EXCEPT ![c].acq = @ + 1]
    /\ Goto(c, "s1")
    /\ UNCHANGED << args, ret, strategy, heap_start, heap_end, next, allocations, free_list,
                    list_heads, fallback, panicked, live, run, last, lock >>

\* self.lock(), the first statement of alloc and dealloc that touches the
\* allocator
Lock(c) ==
    /\ ~panicked
    /\ pc[c] = "lock"
    /\ MutexLock(c)
    /\ frame' = [frame EXCEPT ![c].acq = @ + 1]
    /\ Goto(c, "s1")
    /\ UNCHANGED << args, ret, strategy, heap_start, heap_end, next, allocations, free_list,
                    list_heads, fallback, panicked, live, run, last >>

\* BumpAllocRange returning on the overflow with the guard still alive
BumpAllocRange_KeepsLock(c) ==
    /\ At(c, "s1", "alloc", "bump")
    /\ LET range == bump_alloc_range(next, FrameLayout(c))
       IN  /\ frame' = [frame EXCEPT ![c].loc.alloc_start = range.alloc_start,
                                     ![c].loc.alloc_end = range.alloc_end]
           /\ Goto(c, IF range.alloc_end = -1 THEN "ret" ELSE "s2")
    /\ UNCHANGED << args, ret, strategy, heap_start, heap_end, next, allocations, free_list,
                    list_heads, fallback, panicked, live, run, last, lock >>

\* bump alloc: alloc_start and alloc_end; the overflow returns null at once
BumpAllocRange(c) ==
    /\ At(c, "s1", "alloc", "bump")
    /\ LET range == bump_alloc_range(next, FrameLayout(c))
       IN  /\ frame' = [frame EXCEPT ![c].loc.alloc_start = range.alloc_start,
                                     ![c].loc.alloc_end = range.alloc_end]
           /\ Goto(c, IF range.alloc_end = -1 THEN "drop" ELSE "s2")
    /\ UNCHANGED << args, ret, strategy, heap_start, heap_end, next, allocations, free_list,
                    list_heads, fallback, panicked, live, run, last, lock >>

\* bump alloc: the if statement
BumpAllocCommit(c) ==
    /\ At(c, "s2", "alloc", "bump")
    /\ LET r == bump_alloc_commit(frame[c].loc, next, allocations)
       IN  /\ next' = r.next
           /\ allocations' = r.allocations
           /\ frame' = [frame EXCEPT ![c].ptr = r.ptr]
    /\ Goto(c, "drop")
    /\ UNCHANGED << args, ret, strategy, heap_start, heap_end, free_list, list_heads,
                    fallback, panicked, live, run, last, lock >>

\* bump dealloc: bump.allocations -= 1
BumpDeallocCount(c) ==
    /\ At(c, "s1", "dealloc", "bump")
    /\ \E wrapped \in BOOLEAN :
         LET r == bump_dealloc_count(allocations, wrapped)
         IN  /\ allocations' = r.allocations
             /\ panicked' = r.panicked
    /\ Goto(c, "s2")
    /\ UNCHANGED << args, ret, strategy, heap_start, heap_end, next, free_list, list_heads,
                    fallback, live, run, last, lock, frame >>

\* bump dealloc: the if statement
BumpDeallocReset(c) ==
    /\ At(c, "s2", "dealloc", "bump")
    /\ next' = bump_dealloc_reset(allocations, next)
    /\ Goto(c, "drop")
    /\ UNCHANGED << args, ret, strategy, heap_start, heap_end, allocations, free_list,
                    list_heads, fallback, panicked, live, run, last, lock, frame >>

\* linked-list alloc: find_region; with no region alloc returns null
LinkedListAllocFind(c) ==
    /\ At(c, "s1", "alloc", "linked_list")
    /\ LET sa == size_align(FrameLayout(c))
           f  == find_region(free_list, sa.size, sa.align)
       IN  /\ free_list' = f.list
           /\ frame' = [frame EXCEPT ![c].loc.region = f.region,
                                     ![c].loc.alloc_start = f.alloc_start]
           /\ Goto(c, IF f.found THEN "s2" ELSE "drop")
    /\ UNCHANGED << args, ret, strategy, heap_start, heap_end, next, allocations,
                    list_heads, fallback, panicked, live, run, last, lock >>

\* linked-list alloc: the body of the if let
LinkedListAllocSplit(c) ==
    /\ At(c, "s2", "alloc", "linked_list")
    /\ LET sa == size_align(FrameLayout(c))
           r  == linked_list_split(free_list, frame[c].loc.region,
                                   frame[c].loc.alloc_start, sa.size)
       IN  /\ free_list' = r.list
           /\ panicked' = r.panicked
           /\ frame' = [frame EXCEPT ![c].ptr = IF r.panicked THEN NULL ELSE r.ptr]
    /\ Goto(c, "drop")
    /\ UNCHANGED << args, ret, strategy, heap_start, heap_end, next, allocations,
                    list_heads, fallback, live, run, last, lock >>

\* linked-list dealloc: add_free_region
LinkedListDeallocAdd(c) ==
    /\ At(c, "s1", "dealloc", "linked_list")
    /\ LET r == LinkedListDeallocBody(frame[c].ptr, FrameLayout(c))
       IN  /\ free_list' = r.list
           /\ panicked' = r.panicked
    /\ Goto(c, "drop")
    /\ UNCHANGED << args, ret, strategy, heap_start, heap_end, next, allocations,
                    list_heads, fallback, live, run, last, lock, frame >>

\* fixed-size-block alloc, a layout with an index: list_heads[index].take()
FixedSizeBlockAllocTake(c) ==
    /\ At(c, "s1", "alloc", "fixed_size_block")
    /\ InTable(FrameLayout(c))
    /\ LET t == take(list_heads, list_index(FrameLayout(c)))
       IN  /\ list_heads' = t.heads
           /\ frame' = [frame EXCEPT ![c].loc.chain = t.chain]
    /\ Goto(c, "s2")
    /\ UNCHANGED << args, ret, strategy, heap_start, heap_end, next, allocations, free_list,
                    fallback, panicked, live, run, last, lock >>

\* fixed-size-block alloc: the arms of the inner match
FixedSizeBlockAllocPop(c) ==
    /\ At(c, "s2", "alloc", "fixed_size_block")
    /\ LET r == fixed_size_block_pop(frame[c].loc.chain, list_heads, fallback,
                                     list_index(FrameLayout(c)))
       IN  /\ list_heads' = r.heads
           /\ fallback' = r.fallback
           /\ frame' = [frame EXCEPT ![c].ptr = r.ptr]
    /\ Goto(c, "drop")
    /\ UNCHANGED << args, ret, strategy, heap_start, heap_end, next, allocations, free_list,
                    panicked, live, run, last, lock >>

\* fixed-size-block alloc, a layout with no index
FixedSizeBlockAllocLarge(c) ==
    /\ At(c, "s1", "alloc", "fixed_size_block")
    /\ ~InTable(FrameLayout(c))
    /\ LET r == fixed_size_block_large(list_heads, fallback, FrameLayout(c))
       IN  /\ fallback' = r.fallback
           /\ frame' = [frame EXCEPT ![c].ptr = r.ptr]
    /\ Goto(c, "drop")
    /\ UNCHANGED << args, ret, strategy, heap_start, heap_end, next, allocations, free_list,
                    list_heads, panicked, live, run, last, lock >>

\* fixed-size-block dealloc, a layout with an index: the new node takes the
\* chain
FixedSizeBlockDeallocTake(c) ==
    /\ At(c, "s1", "dealloc", "fixed_size_block")
    /\ InTable(FrameLayout(c))
    /\ LET t == take(list_heads, list_index(FrameLayout(c)))
       IN  /\ list_heads' = t.heads
           /\ frame' = [frame EXCEPT ![c].loc.chain = t.chain]
    /\ Goto(c, "s2")
    /\ UNCHANGED << args, ret, strategy, heap_start, heap_end, next, allocations, free_list,
                    fallback, panicked, live, run, last, lock >>

\* fixed-size-block dealloc: the assertions, and the node becomes the head
FixedSizeBlockDeallocPush(c) ==
    /\ At(c, "s2", "dealloc", "fixed_size_block")
    /\ LET r == fixed_size_block_push(frame[c].loc.chain, list_heads, fallback,
                                      list_index(FrameLayout(c)), frame[c].ptr)
       IN  /\ list_heads' = r.heads
           /\ panicked' = r.panicked
    /\ Goto(c, "drop")
    /\ UNCHANGED << args, ret, strategy, heap_start, heap_end, next, allocations, free_list,
                    fallback, live, run, last, lock, frame >>

\* fixed-size-block dealloc, a layout with no index
FixedSizeBlockDeallocReturn(c) ==
    /\ At(c, "s1", "dealloc", "fixed_size_block")
    /\ ~InTable(FrameLayout(c))
    /\ LET r == fixed_size_block_return(list_heads, fallback, frame[c].ptr,
                                        FrameLayout(c))
       IN  /\ fallback' = r.fallback
           /\ panicked' = r.panicked
    /\ Goto(c, "drop")
    /\ UNCHANGED << args, ret, strategy, heap_start, heap_end, next, allocations, free_list,
                    list_heads, live, run, last, lock, frame >>

\* the guard goes out of scope, at the end of the method or at a return
Unlock(c) ==
    /\ ~panicked
    /\ pc[c] = "drop"
    /\ MutexUnlock(c)
    /\ Goto(c, "ret")
    /\ UNCHANGED << args, ret, strategy, heap_start, heap_end, next, allocations, free_list,
                    list_heads, fallback, panicked, live, run, last, frame >>

\* the call returns: the caller holds the block alloc gave it
Return(c) ==
    /\ ~panicked
    /\ pc[c] = "ret"
    /\ live' = IF frame[c].op = "alloc"
               THEN Given(live, frame[c].ptr, FrameLayout(c)) ELSE live
    /\ frame' = [frame EXCEPT ![c] = IdleFrame]
    /\ Goto(c, "idle")
    /\ UNCHANGED << args, ret, strategy, heap_start, heap_end, next, allocations, free_list,
                    list_heads, fallback, panicked, run, last, lock >>

\* the statements of alloc and dealloc inside the critical section
Body(c) ==
    \/ BumpAllocRange(c)
    \/ BumpAllocCommit(c)
    \/ BumpDeallocCount(c)
    \/ BumpDeallocReset(c)
    \/ LinkedListAllocFind(c)
    \/ LinkedListAllocSplit(c)
    \/ LinkedListDeallocAdd(c)
    \/ FixedSizeBlockAllocTake(c)
    \/ FixedSizeBlockAllocPop(c)
    \/ FixedSizeBlockAllocLarge(c)
    \/ FixedSizeBlockDeallocTake(c)
    \/ FixedSizeBlockDeallocPush(c)
    \/ FixedSizeBlockDeallocReturn(c)

\* a step of a call under way
Step(c) == Lock(c) \/ Body(c) \/ Unlock(c) \/ Return(c)

\* ------------------------------------ functions of the allocators on their own

NoArgs == [fn |-> "none", size |-> 0, align |-> 1, region |-> Region(0, 0), list |-> << >>]
NoRet == [fn |-> "none", value |-> NoIndex]

\* list_index(layout)
ListIndexArgs ==
    { [NoArgs EXCEPT !.fn = "list_index", !.size = size, !.align = 2^k] :
        size \in 0..MaxLayoutSize, k \in 0..MaxAlignLog }

\* the sizes of nodes, and of requests after size_align: multiples of
\* ListNodeAlign from ListNodeSize on
NodeSizes == { 8 * w : w \in 2..HeapWords }

NodeAligns == {8, 16, 32}

\* alloc_from_region(region, size, align)
AllocFromRegionArgs ==
    { [NoArgs EXCEPT !.fn = "alloc_from_region", !.region = Region(hs + 8 * w, rs),
                     !.size = size, !.align = align] :
        hs \in HeapStarts, w \in 0..3, rs \in NodeSizes,
        size \in NodeSizes \cup {BigSize}, align \in NodeAligns }

\* the nodes of the lists find_region is called with
NodePool ==
    { Region(8192, 16), Region(8216, 24), Region(8240, 32), Region(8280, 40),
      Region(8320, 64) }

SeqsUpTo(S, n) == UNION { [1..k -> S] : k \in 0..n }

\* self.find_region(size, align) on a list
FindRegionArgs ==
    { [NoArgs EXCEPT !.fn = "find_region", !.list = list, !.size = size, !.align = align] :
        list \in SeqsUpTo(NodePool, MaxListLen), size \in {16, 24, 32, 48},
        align \in {8, 16} }

CallFunction(fn, value) ==
    /\ args.fn = fn
    /\ ret.fn = "none"
    /\ ret' = [fn |-> fn, value |-> value]
    /\ UNCHANGED << args, strategy, heap_start, heap_end, next, allocations, free_list,
                    list_heads, fallback, panicked, live, run, last, cvars >>

CallListIndex == CallFunction("list_index", list_index(Layout(args.size, args.align)))

CallAllocFromRegion ==
    CallFunction("alloc_from_region", alloc_from_region(args.region, args.size, args.align))

CallFindRegion ==
    CallFunction("find_region", find_region(args.list, args.size, args.align))

\* ------------------------------------------------------------ specification

\* The state after new() and init(heap_start, heap_size) of the installed
\* allocator; the fields of the other two are as new() leaves them.
Init ==
    /\ strategy \in Strategies
    /\ heap_start \in HeapStarts
    /\ heap_end = heap_start + HeapSizeOf(strategy)
    /\ IF strategy = "bump"
       THEN BumpInit(heap_start, HeapSizeOf(strategy))
       ELSE next = 0 /\ allocations = 0
    /\ IF strategy = "linked_list"
       THEN LinkedListInit(heap_start, HeapSizeOf(strategy))
       ELSE free_list = << >>
    /\ FixedSizeBlockInit
    /\ panicked = FALSE
    /\ live = {}
    /\ run = {}
    /\ last = [ op |-> "init", size |-> 0, align |-> 1, ptr |-> NULL, rel |-> NoRel,
                fb |-> FALSE, streak |-> 0, gap |-> FALSE, empty |-> TRUE,
                free |-> FreeSpace ]
    /\ lock = 0
    /\ pc = [c \in Callers |-> "idle"]
    /\ frame = [c \in Callers |-> IdleFrame]
    /\ args = NoArgs
    /\ ret = NoRet

Next ==
    \/ \E layout \in SmallLayouts : BumpAlloc(layout)
    \/ \E b \in live : BumpDealloc(b)
    \/ \E layout \in SmallLayouts : LinkedListAlloc(layout)
    \/ \E b \in live : LinkedListDealloc(b)
    \/ \E layout \in FsbLayouts : FixedSizeBlockAlloc(layout)
    \/ \E b \in live : FixedSizeBlockDealloc(b)

\* calls made one after the other
Spec == Init /\ [][Next]_vars

NextLocked ==
    \/ \E c \in Callers : \E layout \in ConcurrentLayouts(strategy) : CallAlloc(c, layout)
    \/ \E c \in Callers : \E b \in live : CallDealloc(c, b)
    \/ \E c \in Callers : Lock(c)
    \/ \E c \in Callers : BumpAllocRange(c)
    \/ \E c \in Callers : BumpAllocCommit(c)
    \/ \E c \in Callers : BumpDeallocCount(c)
    \/ \E c \in Callers : BumpDeallocReset(c)
    \/ \E c \in Callers : LinkedListAllocFind(c)
    \/ \E c \in Callers : LinkedListAllocSplit(c)
    \/ \E c \in Callers : LinkedListDeallocAdd(c)
    \/ \E c \in Callers : FixedSizeBlockAllocTake(c)
    \/ \E c \in Callers : FixedSizeBlockAllocPop(c)
    \/ \E c \in Callers : FixedSizeBlockAllocLarge(c)
    \/ \E c \in Callers : FixedSizeBlockDeallocTake(c)
    \/ \E c \in Callers : FixedSizeBlockDeallocPush(c)
    \/ \E c \in Callers : FixedSizeBlockDeallocReturn(c)
    \/ \E c \in Callers : Unlock(c)
    \/ \E c \in Callers : Return(c)

\* calls made by concurrent callers through the Locked wrapper
SpecLocked == Init /\ [][NextLocked]_vars

\* ... each of them running on: a caller whose next step stays possible takes
\* it.  A caller spinning on a mutex that others take again and again has no
\* such step.
FairSpecLocked == SpecLocked /\ \A c \in Callers : WF_vars(Step(c))

\* The allocators as new() leaves them, and the arguments of one call of a
\* function
InitFunctions ==
    /\ args \in ListIndexArgs \cup AllocFromRegionArgs \cup FindRegionArgs
    /\ ret = NoRet
    /\ strategy = "linked_list"
    /\ heap_start = 0
    /\ heap_end = 0
    /\ next = 0
    /\ allocations = 0
    /\ free_list = << >>
    /\ FixedSizeBlockInit
    /\ panicked = FALSE
    /\ live = {}
    /\ run = {}
    /\ last = [ op |-> "init", size |-> 0, align |-> 1, ptr |-> NULL, rel |-> NoRel,
                fb |-> FALSE, streak |-> 0, gap |-> FALSE, empty |-> TRUE,
                free |-> 0 ]
    /\ lock = 0
    /\ pc = [c \in Callers |-> "idle"]
    /\ frame = [c \in Callers |-> IdleFrame]

NextFunctions ==
    \/ CallListIndex
    \/ CallAllocFromRegion
    \/ CallFindRegion

\* one call of list_index, alloc_from_region or find_region
SpecFunctions == InitFunctions /\ [][NextFunctions]_vars


\* the layouts whose alignment is at most that of a ListNode
AlignedLayouts == { layout \in SmallLayouts : layout.align <= ListNodeAlign }

NextAligned ==
    \/ \E layout \in AlignedLayouts : LinkedListAlloc(layout)
    \/ \E b \in live : LinkedListDealloc(b)

\* calls of the linked-list allocator, none of them over-aligned
SpecAligned == Init /\ [][NextAligned]_vars

\* ------------------------------------------------------------------ claims

Disjoint(b1, b2) == ~Overlap(b1.ptr, b1.size, b2.ptr, b2.size)

\* C1: whatever the strategy, the blocks returned by allocate calls with no
\* release in between occupy pairwise disjoint byte ranges [ptr, ptr + size).
C1_NoOverlap == \A b1, b2 \in run : b1 # b2 => Disjoint(b1, b2)

\* three blocks allocated in a row by the linked-list allocator
C1_Witness == strategy = "linked_list" /\ Cardinality(run) = 3

\* C2: whatever the strategy, an allocate returns null or an address that is a
\* multiple of the alignment asked for, with [ptr, ptr + size) inside
\* [heap_start, heap_end).
C2_AlignedInHeap ==
    (last.op = "alloc" /\ last.ptr # NULL)
        => /\ last.ptr % last.align = 0
           /\ heap_start <= last.ptr
           /\ last.ptr + last.size <= heap_end

\* a 16-aligned block that the linked-list allocator could not place at the
\* start of the heap, handed out after a release
C2_Witness ==
    /\ strategy = "linked_list"
    /\ last.op = "alloc" /\ last.align = 16 /\ last.ptr # NULL
    /\ last.ptr # heap_start
    /\ last.rel # NoRel

\* C3: bump allocator: once every allocated block has been released, in any
\* order, next is heap_start again and the next allocation starts there.
C3_BumpReset ==
    strategy = "bump"
        => /\ live = {} => next = heap_start
           /\ (last.op = "alloc" /\ last.empty /\ last.ptr # NULL)
                  => last.ptr = heap_start

\* an allocation at heap_start that follows two or more releases, the last of
\* them not that of the block allocated first
C3_Witness ==
    /\ strategy = "bump"
    /\ last.op = "alloc" /\ last.empty /\ last.ptr = heap_start
    /\ last.streak = 2
    /\ last.rel.ptr # heap_start

\* C4 as stated: fixed-size-block allocator: after the release of a block of
\* class size k, a request whose required size max(size, align) is <= k
\* returns the released address without calling the fallback allocator.
C4_ReuseAnySmaller ==
    ( /\ strategy = "fixed_size_block"
      /\ last.op = "alloc"
      /\ last.rel # NoRel
      /\ InTable(LayoutOfBlock(last.rel))
      /\ Max(last.size, last.align) <= BLOCK_SIZES(list_index(LayoutOfBlock(last.rel))) )
        => (last.ptr = last.rel.ptr /\ ~last.fb)

\* C4 amended: ... a request of the same size class as the released block
\* (the same list_index) returns the released address without calling the
\* fallback allocator.
C4_ReuseSameClass ==
    ( /\ strategy = "fixed_size_block"
      /\ last.op = "alloc"
      /\ last.rel # NoRel
      /\ InTable(LayoutOfBlock(last.rel))
      /\ list_index(Layout(last.size, last.align)) = list_index(LayoutOfBlock(last.rel)) )
        => (last.ptr = last.rel.ptr /\ ~last.fb)

\* a block released with one layout and handed out again for another layout of
\* the same class, while the bucket holds a second block
C4_Witness ==
    /\ strategy = "fixed_size_block"
    /\ last.op = "alloc" /\ last.size = 64 /\ last.rel.size = 48
    /\ last.ptr = last.rel.ptr /\ last.ptr # NULL /\ ~last.fb
    /\ list_heads[3] # << >>

\* C5: linked-list allocator: an allocate that leaves a leftover replaces the
\* chosen region by one new region, at the front, whose size is the chosen
\* region's size minus the allocated (size_align) size; the other regions stay.
C5_SplitLeavesRest ==
    [][ ( /\ strategy = "linked_list"
          /\ last'.op = "alloc" /\ last'.ptr # NULL
          /\ Len(free_list') = Len(free_list) )
          => \E i \in 1..Len(free_list) :
                /\ free_list[i].addr <= last'.ptr
                /\ last'.ptr < end_addr(free_list[i])
                /\ Tail(free_list') = RemoveAt(free_list, i)
                /\ Head(free_list').size
                     = free_list[i].size - size_align(Layout(last'.size, last'.align)).size
      ]_vars

\* C6: whatever the strategy, an allocate of more bytes than are free returns
\* null.
C6_Exhaustion ==
    (last.op = "alloc" /\ last.size > last.free) => last.ptr = NULL

\* a request of 24 bytes refused by the linked-list allocator with 16 bytes free
C6_Witness ==
    /\ strategy = "linked_list"
    /\ last.op = "alloc" /\ last.size = 24 /\ last.free = 16 /\ last.ptr = NULL

\* C7: linked-list allocator: an allocate with the layout of the block released
\* just before it, failed allocates in between or not, returns that block's
\* address.
C7_ReleaseThenAllocate ==
    ( /\ strategy = "linked_list"
      /\ last.op = "alloc"
      /\ last.rel # NoRel
      /\ last.size = last.rel.size /\ last.align = last.rel.align )
        => (last.ptr = last.rel.ptr /\ last.ptr # NULL)

\* the released block handed out again, not at the start of the heap, after an
\* allocate that failed, with other free regions in the list
C7_Witness ==
    /\ strategy = "linked_list"
    /\ last.op = "alloc" /\ last.gap
    /\ last.size = last.rel.size /\ last.align = last.rel.align
    /\ last.ptr = last.rel.ptr /\ last.ptr # heap_start
    /\ free_list # << >>

\* the bookkeeping of the three allocators
bookkeeping == << next, allocations, free_list, list_heads, fallback >>

\* a block an alloc under way has carved out and not yet returned
Carved(c) == frame[c].op = "alloc" /\ frame[c].ptr # NULL

\* C8: with concurrent callers at most one is between taking and dropping the
\* lock and it is the holder, every statement that reads or writes the
\* bookkeeping is a step of the holder, and the blocks handed out (returned,
\* or about to be) never overlap.
C8_Serialized ==
    /\ [](\A c \in Callers : InCriticalSection(c) => lock = c)
    /\ [](\A c, d \in Callers :
            (InCriticalSection(c) /\ InCriticalSection(d)) => c = d)
    /\ [](/\ \A b1, b2 \in live : b1 # b2 => Disjoint(b1, b2)
          /\ \A c \in Callers : \A b \in live :
                Carved(c) => ~Overlap(frame[c].ptr, frame[c].size, b.ptr, b.size)
          /\ \A c, d \in Callers :
                (c # d /\ Carved(c) /\ Carved(d))
                    => ~Overlap(frame[c].ptr, frame[c].size, frame[d].ptr, frame[d].size))
    /\ [][ /\ \A c \in Callers :
                (pc[c] \in {"s1", "s2"} /\ pc'[c] # pc[c]) => lock = c
           /\ bookkeeping' # bookkeeping
                => \E c \in Callers : /\ lock = c
                                       /\ pc[c] \in {"s1", "s2"}
                                       /\ pc'[c] # pc[c]
         ]_vars

\* one caller inside alloc's critical section, holding a block already, while
\* another caller waits at the lock with a call of its own
C8_Witness ==
    \E c, d \in Callers :
        /\ c # d
        /\ pc[c] = "s2" /\ frame[c].op = "alloc" /\ lock = c
        /\ pc[d] = "lock" /\ frame[d].op = "alloc"
        /\ live # {}

\* what C9 says of the lock: a call takes it at most once, never while it
\* holds it, and does not hold it any more when it returns; a held lock
\* belongs to a call inside its critical section
C9_LockDiscipline ==
    \A c \in Callers :
        /\ frame[c].acq <= 1
        /\ pc[c] = "lock" => lock # c
        /\ pc[c] \in {"ret", "idle"} => lock # c
        /\ lock = c => InCriticalSection(c)

\* C9 as stated: every call that starts runs to completion, takes the lock at
\* most once and not re-entrantly, and has released it when it returns.
C9_EveryCallCompletes ==
    /\ []C9_LockDiscipline
    /\ \A c \in Callers : (pc[c] # "idle") ~> (pc[c] = "idle")

\* C9 amended: every call that has taken the lock runs to completion; a call
\* waiting for the lock goes on waiting only while other callers take the
\* lock; the lock discipline is as stated.
C9_HolderCompletes ==
    /\ []C9_LockDiscipline
    /\ \A c \in Callers : (pc[c] \in {"s1", "s2", "drop", "ret"}) ~> (pc[c] = "idle")
    /\ \A c \in Callers :
          (pc[c] = "lock") ~> (pc[c] # "lock" \/ \E d \in Callers : d # c /\ pc[d] = "s1")

\* a bump alloc that returns null on the overflow of alloc_start + size has
\* dropped the lock, and another caller holds it
C9_Witness ==
    \E c, d \in Callers :
        /\ c # d
        /\ strategy = "bump"
        /\ pc[c] = "ret" /\ frame[c].op = "alloc" /\ frame[c].loc.alloc_end = -1
        /\ frame[c].ptr = NULL
        /\ lock = d

\* C10: bump allocator: allocations is the number of live blocks, so a failed
\* allocate leaves it alone, and it is 0 exactly when no block is live.
C10_Counter ==
    strategy = "bump"
        => /\ allocations = Cardinality(live)
           /\ (allocations = 0 <=> live = {})

\* a failed allocate with two blocks live
C10_Witness ==
    /\ strategy = "bump"
    /\ last.op = "alloc" /\ last.ptr = NULL
    /\ allocations = 2 /\ Cardinality(live) = 2

C12_ListIndex ==
    ret.fn = "list_index"
        => LET required == Max(args.size, args.align)
           IN  IF required > 2048
               THEN ret.value = NoIndex
               ELSE /\ ret.value \in BlockIndexes
                    /\ BLOCK_SIZES(ret.value) >= required
                    /\ \A j \in BlockIndexes :
                          BLOCK_SIZES(j) >= required => ret.value <= j

\* list_index for a layout whose alignment is larger than its size, and for
\* which the alignment selects the class
C12_Witness ==
    /\ ret.fn = "list_index"
    /\ args.size = 100 /\ args.align = 256
    /\ ret.value = 5

\* C13: fixed-size-block allocator: every block linked in bucket i starts at a
\* multiple of BLOCK_SIZES[i] and is a block the fallback gave for the layout
\* (BLOCK_SIZES[i], BLOCK_SIZES[i]); the assertions of dealloc hold for every
\* index of the table and never fail.
C13_BucketBlocks ==
    strategy = "fixed_size_block"
        => /\ \A i \in BlockIndexes : \A k \in 1..Len(list_heads[i]) :
                LET ptr == list_heads[i][k]
                    class == Layout(BLOCK_SIZES(i), BLOCK_SIZES(i))
                IN  /\ ptr # NULL
                    /\ ptr % BLOCK_SIZES(i) = 0
                    /\ Region(ptr, HeapBlockSize(class)) \in fallback
                    /\ HeapBlockSize(class) >= BLOCK_SIZES(i)
           /\ \A i \in BlockIndexes :
                FsbNodeSize <= BLOCK_SIZES(i) /\ FsbNodeAlign <= BLOCK_SIZES(i)
           /\ ~panicked

\* the buckets of two classes hold a block each after two releases
C13_Witness ==
    /\ strategy = "fixed_size_block"
    /\ Len(list_heads[0]) = 1
    /\ Len(list_heads[3]) = 1
    /\ last.op = "dealloc"

\* C14: linked-list allocator: every node of the free list has a size of at
\* least size_of(ListNode) and starts at a multiple of align_of(ListNode); the
\* assertions of add_free_region never fail, called from alloc (the leftover of
\* a split) or from dealloc.
C14_NodesHoldListNode ==
    strategy = "linked_list"
        => /\ \A k \in 1..Len(free_list) :
                /\ free_list[k].size >= ListNodeSize
                /\ free_list[k].addr % ListNodeAlign = 0
           /\ ~panicked

\* three nodes: the leftover of a split and two released blocks, one of them
\* asked for with a size and an alignment that size_align had to pad
C14_Witness ==
    /\ strategy = "linked_list"
    /\ Len(free_list) = 3
    /\ last.op = "dealloc" /\ last.size = 20 /\ last.align = 4

\* C15: find_region returns the first node from the head that
\* alloc_from_region accepts, with its allocation start, unlinks that node and
\* no other, and keeps the other nodes in their order; when no node fits it
\* returns None and the list is as it was.
C15_FirstFit ==
    ret.fn = "find_region"
        => LET list == args.list
               fits == { i \in 1..Len(list) :
                           alloc_from_region(list[i], args.size, args.align) # -1 }
               r    == ret.value
           IN  IF fits = {}
               THEN ~r.found /\ r.list = list
               ELSE \E i \in fits :
                      /\ \A k \in fits : i <= k
                      /\ r.found
                      /\ r.region = list[i]
                      /\ r.alloc_start = alloc_from_region(list[i], args.size, args.align)
                      /\ r.list = [j \in 1..(Len(list) - 1) |->
                                      IF j < i THEN list[j] ELSE list[j + 1]]

\* a list of three nodes of which the first is too small, the second and the
\* third fit: the second is returned and the other two stay
C15_Witness ==
    /\ ret.fn = "find_region"
    /\ args.list = << Region(8192, 16), Region(8240, 32), Region(8320, 64) >>
    /\ args.size = 32 /\ args.align = 8
    /\ ret.value.found /\ ret.value.region = Region(8240, 32)
    /\ ret.value.list = << Region(8192, 16), Region(8320, 64) >>

\* C16: alloc_from_region accepts a region exactly when the block, placed at
\* the region's start aligned up, ends inside the region and leaves behind it
\* either nothing or at least size_of(ListNode) bytes; it then returns the
\* aligned start.  A leftover of 1..size_of(ListNode) - 1 bytes is refused
\* although the block fits.
C16_Accepts ==
    ret.fn = "alloc_from_region"
        => LET region      == args.region
               alloc_start == ((region.addr + args.align - 1) \div args.align) * args.align
               alloc_end   == alloc_start + args.size
               region_end  == region.addr + region.size
               excess_size == region_end - alloc_end
               accepted    == /\ alloc_end <= UsizeMax
                              /\ alloc_end <= region_end
                              /\ (excess_size = 0 \/ excess_size >= ListNodeSize)
           IN  /\ accepted <=> ret.value # -1
               /\ accepted => ret.value = alloc_start
               /\ (excess_size > 0 /\ excess_size < ListNodeSize) => ret.value = -1

\* a region of 24 bytes refused for a block of 16 bytes: 8 bytes would be left
C16_Witness ==
    /\ ret.fn = "alloc_from_region"
    /\ args.region = Region(8192, 24)
    /\ args.size = 16 /\ args.align = 8
    /\ ret.value = -1

\* C17: linked-list allocator: dealloc(ptr, layout) puts one node, (ptr,
\* size_align(layout).size), in front of the free list and leaves every other
\* node as it was and where it was, adjacent to the block or not.
C17_NoCoalescing ==
    [][ (strategy = "linked_list" /\ last'.op = "dealloc")
            => free_list' =
                 << Region(last'.ptr,
                           size_align(Layout(last'.size, last'.align)).size) >>
                 \o free_list ]_vars

\* two adjacent blocks have been released one after the other and are the
\* first two nodes of the list; the allocate that follows fails although the
\* two nodes together have room for it
C17_Witness ==
    /\ strategy = "linked_list"
    /\ last.op = "alloc" /\ last.ptr = NULL /\ last.streak = 2 /\ ~last.gap
    /\ Len(free_list) >= 2
    /\ last.rel.ptr = free_list[1].addr
    /\ end_addr(free_list[2]) = free_list[1].addr
    /\ size_align(Layout(last.size, last.align)).size
          <= free_list[1].size + free_list[2].size

\* the bytes a live block of the linked-list allocator occupies: its layout
\* after size_align
Held(b) == Region(b.ptr, size_align(LayoutOfBlock(b)).size)

RegionsOverlap(r1, r2) == Overlap(r1.addr, r1.size, r2.addr, r2.size)

\* C18: linked-list allocator: the regions of the free list are pairwise
\* disjoint, inside the heap and disjoint from every live block (with its size
\* after size_align); live blocks are pairwise disjoint, releases between the
\* allocations or not.
C18_FreeAndLiveDisjoint ==
    strategy = "linked_list"
        => /\ \A i, j \in 1..Len(free_list) :
                i # j => ~RegionsOverlap(free_list[i], free_list[j])
           /\ \A i \in 1..Len(free_list) :
                /\ heap_start <= free_list[i].addr
                /\ end_addr(free_list[i]) <= heap_end
           /\ \A i \in 1..Len(free_list) : \A b \in live :
                ~RegionsOverlap(free_list[i], Held(b))
           /\ \A b1, b2 \in live :
                b1 # b2 => ~RegionsOverlap(Held(b1), Held(b2))

\* an allocate that followed a release has reused the released block, with
\* two blocks live and two regions free
C18_Witness ==
    /\ strategy = "linked_list"
    /\ last.op = "alloc" /\ last.ptr # NULL /\ last.rel.ptr = last.ptr
    /\ Cardinality(live) = 2
    /\ Len(free_list) = 2

\* the bytes the blocks of S occupy in the linked-list allocator
RECURSIVE SumHeld(_)
SumHeld(S) == IF S = {} THEN 0
              ELSE LET b == CHOOSE x \in S : TRUE IN Held(b).size + SumHeld(S \ {b})

\* C19: linked-list allocator, no request aligned beyond align_of(ListNode):
\* the sizes of the free nodes and the sizes (after size_align) of the live
\* blocks add up to heap_size in every state; with no block live the free
\* nodes add up to heap_size.
C19_NoBytesLost ==
    strategy = "linked_list"
        => /\ SumSizes(free_list) + SumHeld(live) = heap_end - heap_start
           /\ live = {} => SumSizes(free_list) = heap_end - heap_start

\* every block has been released and the heap is in three nodes
C19_Witness ==
    /\ strategy = "linked_list"
    /\ live = {}
    /\ last.op = "dealloc"
    /\ Len(free_list) = 3

\* the block the fallback gave for class i at ptr
ClassBlock(i, ptr) == Region(ptr, HeapBlockSize(Layout(BLOCK_SIZES(i), BLOCK_SIZES(i))))

InBucket(i, ptr) == \E k \in 1..Len(list_heads[i]) : list_heads[i][k] = ptr

\* every block of the fallback is a live block, or a class block linked in the
\* bucket of its class and in no other; a live block of class i is a class-i
\* block of the fallback and is in no bucket
BlocksInPlace ==
    /\ \A u \in fallback :
          \/ \E b \in live : b.ptr = u.addr
          \/ \E i \in BlockIndexes :
                /\ u = ClassBlock(i, u.addr)
                /\ InBucket(i, u.addr)
                /\ \A j \in BlockIndexes : j # i => ~InBucket(j, u.addr)
    /\ \A b \in live :
          /\ InTable(LayoutOfBlock(b))
                => ClassBlock(list_index(LayoutOfBlock(b)), b.ptr) \in fallback
          /\ \A i \in BlockIndexes : ~InBucket(i, b.ptr)
    /\ \A i \in BlockIndexes : \A k \in 1..Len(list_heads[i]) :
          ClassBlock(i, list_heads[i][k]) \in fallback

\* C20: fixed-size-block allocator: a block the fallback gave for class i is
\* from then on live or linked in bucket i.  The release of a layout of the
\* table leaves the fallback alone and links the block in bucket
\* list_index(layout); a block leaves bucket i only as the result of an
\* allocate whose list_index is i; the fallback gets memory back only from
\* the release of a layout outside the table.
C20_BlocksStayInClass ==
    /\ [](strategy = "fixed_size_block" => BlocksInPlace)
    /\ [][ strategy = "fixed_size_block" =>
             LET layout == Layout(last'.size, last'.align)
                 index  == list_index(layout)
             IN  /\ (last'.op = "dealloc" /\ InTable(layout))
                       => /\ fallback' = fallback
                          /\ ~last'.fb
                          /\ list_heads' = [list_heads EXCEPT
                                               ![index] = << last'.ptr >> \o @]
                 /\ \A i \in BlockIndexes :
                       Len(list_heads'[i]) < Len(list_heads[i])
                           => /\ last'.op = "alloc"
                              /\ index = i
                              /\ last'.ptr = Head(list_heads[i])
                              /\ list_heads' = [list_heads EXCEPT ![i] = Tail(@)]
                 /\ (\E u \in fallback : u \notin fallback')
                       => /\ last'.op = "dealloc"
                          /\ ~InTable(layout)
                          /\ list_heads' = list_heads
           ]_vars

\* an allocate of the smallest class fails (its bucket is empty and the
\* fallback has nothing left) while the bucket of the 64-byte class holds two
\* free blocks
C20_Witness ==
    /\ strategy = "fixed_size_block"
    /\ last.op = "alloc" /\ last.ptr = NULL /\ last.fb
    /\ last.size = 8 /\ last.align = 8
    /\ Len(list_heads[3]) = 2
    /\ list_heads[0] = << >>

====
